---------------------------- MODULE Spec2Model ----------------------------
(***************************************************************************)
(* Generic graph search of src/graph.rs: num_reachable_targets,            *)
(* exists_path, shortest_path (breadth-first, work queue + visited set)    *)
(* and num_of_paths (recursive walk counting).                             *)
(*                                                                         *)
(* One call of one function is one behaviour.  The arguments (the graph    *)
(* behind get_edges, the predicate is_tgt, src, tgt) are chosen in Init.   *)
(* A HashSet is enumerated in an unspecified order, so every `for nbr in   *)
(* get_edges(u)` loop takes its next neighbour nondeterministically from   *)
(* the neighbours not yet enumerated.                                      *)
(*                                                                         *)
(* Option<T> is modelled as a sequence of length at most one:              *)
(* None == << >>, Some(x) == << x >>.                                      *)
(*                                                                         *)
(* Further down: the beam simulation Manifold::run1 of src/days/day07.rs   *)
(* and get_components of src/days/day12.rs, each a call of its own.        *)
(***************************************************************************)
EXTENDS Integers, Sequences, FiniteSets, TLC

\* Number of vertices of the graphs explored (vertices are 0 .. NumVerts-1).
NumVerts == 3

\* Largest number of edges of the graphs explored.
MaxEdges == 3

\* The vertex type T.
Vertex == 0 .. (NumVerts - 1)

\* Deepest recursion of num_of_paths that is followed.  A recursion that
\* returns on a graph of NumVerts vertices never nests deeper than NumVerts
\* calls (src, then distinct non-satisfying vertices); among NumVerts + 1
\* nested calls two are on the same vertex, so the one extra frame shows a
\* recursion that runs around a cycle re-entering a vertex.
MaxDepth == NumVerts + 1

None == << >>

Some(x) == << x >>

VARIABLES
    op,             \* the function called: "nrt", "ep", "sp" or "np"
    graph,          \* the edge relation behind get_edges
    targets,        \* the vertices satisfying is_tgt
    src,            \* argument src
    tgt,            \* argument tgt (exists_path, shortest_path)
    pc,             \* position in the function body
    visited,        \* HashSet<T> (nrt, ep) or HashMap<T, Option<T>> (sp)
    q,              \* VecDeque<T> (nrt, ep) or VecDeque<(T, usize)> (sp)
    u,              \* vertex bound by `while let Some(u) = q.pop_front()`
    dist,           \* distance bound with u in shortest_path
    pending,        \* neighbours of u the for loop has not yet enumerated
    result,         \* local `result` of num_reachable_targets
    ret,            \* the value returned
    output_length,  \* shortest_path: dist + 2
    rem,            \* shortest_path: the spare capacity of `output`
    cur,            \* shortest_path: vertex of the backward walk
    i,              \* shortest_path: counter of the backward walk
    stack,          \* num_of_paths: the call stack, innermost frame last
    pushed,         \* history: pushes of each vertex onto q (0, 1, 2 = more)
    expanded,       \* history: pops of each vertex from q (0, 1, 2 = more)
    order,          \* history: vertices in the order they entered visited
    grid,           \* day07: Manifold.grid; day12: the grid of characters
    n,              \* day07: Manifold.n, the number of rows
    m,              \* day07: Manifold.m, the number of columns
    start,          \* day07: Manifold.start
    num_splits,     \* day07: Manifold.num_splits
    beams,          \* day07: the beam set of run1
    updates,        \* day07 history: calls of update so far
    occupied,       \* day07 history: every position a beam has been at
    hits,           \* day07 history: times each cell was counted as a split
    height,         \* day12: grid.len()
    width,          \* day12: grid[0].len()
    ut,             \* day12: the UpTree, as the set of its components
    seen,           \* day12: HashSet<Coords> of the cells already popped
    filtered_nbrs_grid, \* day12: the Nbrs of every cell built so far
    j,              \* day12: column of the cell being built (row is i)
    unions          \* day12 history: the calls ut.union(w, v), in order

day07vars == << n, m, start, num_splits, beams, updates, occupied, hits >>

day12vars == << height, width, ut, seen, filtered_nbrs_grid, j, unions >>

\* What the graph searches never touch.
puzzle == << grid, day07vars, day12vars >>

vars == << op, graph, targets, src, tgt, pc, visited, q, u, dist, pending,
           result, ret, output_length, rem, cur, i, stack, pushed, expanded,
           order, puzzle >>

args == << op, graph, targets, src, tgt >>

spvars == << output_length, rem, cur, i >>

\* The caller's neighbour function.
get_edges(x) == { w \in Vertex : << x, w >> \in graph }

\* The caller's target predicate.
is_tgt(x) == x \in targets

Graphs == { g \in SUBSET (Vertex \X Vertex) : Cardinality(g) <= MaxEdges }

ZeroCount == [ v \in Vertex |-> 0 ]

\* The history counters tell never, once and more than once apart: they
\* stop at 2.
Inc(c) == IF c < 2 THEN c + 1 ELSE c

\* Everything a call has not touched yet.
Fresh ==
    /\ pc = "call"
    /\ q = << >>
    /\ u = 0
    /\ dist = 0
    /\ pending = {}
    /\ result = 0
    /\ output_length = 0
    /\ rem = << >>
    /\ cur = 0
    /\ i = 0
    /\ stack = << >>
    /\ pushed = ZeroCount
    /\ expanded = ZeroCount
    /\ order = << >>

\* No Manifold is under simulation.
NoDay07 ==
    /\ n = 0
    /\ m = 0
    /\ start = << 0, 0 >>
    /\ num_splits = 0
    /\ beams = {}
    /\ updates = 0
    /\ occupied = {}
    /\ hits = << >>

\* No get_components call is under way.
NoDay12 ==
    /\ height = 0
    /\ width = 0
    /\ ut = {}
    /\ seen = {}
    /\ filtered_nbrs_grid = << >>
    /\ j = 0
    /\ unions = << >>

\* A call of a graph search: no puzzle state.
NoPuzzle == grid = << >> /\ NoDay07 /\ NoDay12

\* A call of a puzzle function: no graph, no search arguments.
NoGraph ==
    /\ graph = {}
    /\ targets = {}
    /\ src = 0
    /\ tgt = 0
    /\ visited = {}

--------------------------------------------------------------------------
(* num_reachable_targets *)

InitNRT ==
    /\ NoPuzzle
    /\ visited = {}
    /\ op = "nrt"
    /\ graph \in Graphs
    /\ targets \in SUBSET Vertex
    /\ src \in Vertex
    /\ tgt = 0
    /\ ret = 0
    /\ Fresh

\* A mutant of NrtCall: visited.insert(src) is missing.
NrtCallNoInsert ==
    /\ op = "nrt" /\ pc = "call"
    /\ result' = (IF is_tgt(src) THEN 1 ELSE 0)
    /\ visited' = {}
    /\ q' = << src >>
    /\ pushed' = [pushed EXCEPT ![src] = Inc(@)]
    /\ order' = << >>
    /\ pc' = "while"
    /\ UNCHANGED puzzle
    /\ UNCHANGED << args, u, dist, pending, ret, spvars, stack, expanded >>

\* graph.rs 47-55
NrtCall ==
    /\ op = "nrt" /\ pc = "call"
    /\ result' = (IF is_tgt(src) THEN 1 ELSE 0)
    /\ visited' = {src}
    /\ q' = << src >>
    /\ pushed' = [pushed EXCEPT ![src] = Inc(@)]
    /\ order' = << src >>
    /\ pc' = "while"
    /\ UNCHANGED puzzle
    /\ UNCHANGED << args, u, dist, pending, ret, spvars, stack, expanded >>

\* A mutant of NrtPop: the front of the queue is read but not removed
\* (front() in place of pop_front()).
NrtPopNoPop ==
    /\ op = "nrt" /\ pc = "while" /\ q # << >>
    /\ u' = Head(q)
    /\ pending' = get_edges(Head(q))
    /\ expanded' = [expanded EXCEPT ![Head(q)] = Inc(@)]
    /\ pc' = "for"
    /\ UNCHANGED puzzle
    /\ UNCHANGED << args, visited, q, dist, result, ret, spvars, stack,
                    pushed, order >>

\* graph.rs 58-59: pop_front yields Some(u); get_edges(u) is evaluated.
NrtPop ==
    /\ op = "nrt" /\ pc = "while" /\ q # << >>
    /\ u' = Head(q)
    /\ q' = Tail(q)
    /\ pending' = get_edges(Head(q))
    /\ expanded' = [expanded EXCEPT ![Head(q)] = Inc(@)]
    /\ pc' = "for"
    /\ UNCHANGED puzzle
    /\ UNCHANGED << args, visited, dist, result, ret, spvars, stack, pushed,
                    order >>

\* A mutant of NrtVisit: is_tgt(nbr) is counted outside the test of
\* visited.insert, for every neighbour enumerated.
NrtVisitCountAll ==
    /\ op = "nrt" /\ pc = "for"
    /\ \E nbr \in pending :
        /\ pending' = pending \ {nbr}
        /\ result' = IF is_tgt(nbr) THEN result + 1 ELSE result
        /\ IF nbr \notin visited
           THEN /\ visited' = visited \cup {nbr}
                /\ q' = Append(q, nbr)
                /\ pushed' = [pushed EXCEPT ![nbr] = Inc(@)]
                /\ order' = Append(order, nbr)
           ELSE UNCHANGED << visited, q, pushed, order >>
    /\ UNCHANGED puzzle
    /\ UNCHANGED << args, pc, u, dist, ret, spvars, stack, expanded >>

\* graph.rs 59-71: one iteration of the for loop.
NrtVisit ==
    /\ op = "nrt" /\ pc = "for"
    /\ \E nbr \in pending :
        /\ pending' = pending \ {nbr}
        /\ IF nbr \notin visited
           THEN /\ visited' = visited \cup {nbr}
                /\ q' = Append(q, nbr)
                /\ pushed' = [pushed EXCEPT ![nbr] = Inc(@)]
                /\ order' = Append(order, nbr)
                /\ result' = IF is_tgt(nbr) THEN result + 1 ELSE result
           ELSE UNCHANGED << visited, q, pushed, order, result >>
    /\ UNCHANGED puzzle
    /\ UNCHANGED << args, pc, u, dist, ret, spvars, stack, expanded >>

\* graph.rs 71: the for loop is exhausted.
NrtEndFor ==
    /\ op = "nrt" /\ pc = "for" /\ pending = {}
    /\ pc' = "while"
    /\ UNCHANGED puzzle
    /\ UNCHANGED << args, visited, q, u, dist, pending, result, ret, spvars,
                    stack, pushed, expanded, order >>

\* graph.rs 58, 74: pop_front yields None; result is returned.
NrtReturn ==
    /\ op = "nrt" /\ pc = "while" /\ q = << >>
    /\ ret' = result
    /\ pc' = "done"
    /\ UNCHANGED puzzle
    /\ UNCHANGED << args, visited, q, u, dist, pending, result, spvars,
                    stack, pushed, expanded, order >>

NextNRT == NrtCall \/ NrtPop \/ NrtVisit \/ NrtEndFor \/ NrtReturn

SpecNRT == InitNRT /\ [][NextNRT]_vars

--------------------------------------------------------------------------
(* exists_path *)

InitEP ==
    /\ NoPuzzle
    /\ visited = {}
    /\ op = "ep"
    /\ graph \in Graphs
    /\ targets = {}
    /\ src \in Vertex
    /\ tgt \in Vertex
    /\ ret = FALSE
    /\ Fresh

\* A mutant of EpCall: the early return for src == tgt is missing.
EpCallNoShortcut ==
    /\ op = "ep" /\ pc = "call"
    /\ visited' = {src}
    /\ q' = << src >>
    /\ pushed' = [pushed EXCEPT ![src] = Inc(@)]
    /\ order' = << src >>
    /\ pc' = "while"
    /\ UNCHANGED puzzle
    /\ UNCHANGED << args, u, dist, pending, result, ret, spvars, stack,
                    expanded >>

\* graph.rs 82-92
EpCall ==
    /\ op = "ep" /\ pc = "call"
    /\ IF src = tgt
       THEN /\ ret' = TRUE
            /\ pc' = "done"
            /\ UNCHANGED << visited, q, pushed, order >>
       ELSE /\ visited' = {src}
            /\ q' = << src >>
            /\ pushed' = [pushed EXCEPT ![src] = Inc(@)]
            /\ order' = << src >>
            /\ pc' = "while"
            /\ UNCHANGED ret
    /\ UNCHANGED puzzle
    /\ UNCHANGED << args, u, dist, pending, result, spvars, stack, expanded >>

\* graph.rs 95-96
EpPop ==
    /\ op = "ep" /\ pc = "while" /\ q # << >>
    /\ u' = Head(q)
    /\ q' = Tail(q)
    /\ pending' = get_edges(Head(q))
    /\ expanded' = [expanded EXCEPT ![Head(q)] = Inc(@)]
    /\ pc' = "for"
    /\ UNCHANGED puzzle
    /\ UNCHANGED << args, visited, dist, result, ret, spvars, stack, pushed,
                    order >>

\* A mutant of EpVisit: the for loop is left after the first neighbour
\* (a stray break at the end of the loop body).
EpVisitBreak ==
    /\ op = "ep" /\ pc = "for"
    /\ \E nbr \in pending :
        /\ pending' = {}
        /\ IF nbr \notin visited
           THEN /\ visited' = visited \cup {nbr}
                /\ order' = Append(order, nbr)
                /\ IF nbr = tgt
                   THEN /\ ret' = TRUE
                        /\ pc' = "done"
                        /\ UNCHANGED << q, pushed >>
                   ELSE /\ q' = Append(q, nbr)
                        /\ pushed' = [pushed EXCEPT ![nbr] = Inc(@)]
                        /\ UNCHANGED << ret, pc >>
           ELSE UNCHANGED << visited, order, q, pushed, ret, pc >>
    /\ UNCHANGED puzzle
    /\ UNCHANGED << args, u, dist, result, spvars, stack, expanded >>

\* graph.rs 96-108: one iteration of the for loop.
EpVisit ==
    /\ op = "ep" /\ pc = "for"
    /\ \E nbr \in pending :
        /\ pending' = pending \ {nbr}
        /\ IF nbr \notin visited
           THEN /\ visited' = visited \cup {nbr}
                /\ order' = Append(order, nbr)
                /\ IF nbr = tgt
                   THEN /\ ret' = TRUE
                        /\ pc' = "done"
                        /\ UNCHANGED << q, pushed >>
                   ELSE /\ q' = Append(q, nbr)
                        /\ pushed' = [pushed EXCEPT ![nbr] = Inc(@)]
                        /\ UNCHANGED << ret, pc >>
           ELSE UNCHANGED << visited, order, q, pushed, ret, pc >>
    /\ UNCHANGED puzzle
    /\ UNCHANGED << args, u, dist, result, spvars, stack, expanded >>

\* graph.rs 108: the for loop is exhausted.
EpEndFor ==
    /\ op = "ep" /\ pc = "for" /\ pending = {}
    /\ pc' = "while"
    /\ UNCHANGED puzzle
    /\ UNCHANGED << args, visited, q, u, dist, pending, result, ret, spvars,
                    stack, pushed, expanded, order >>

\* graph.rs 95, 111: pop_front yields None; false is returned.
EpReturn ==
    /\ op = "ep" /\ pc = "while" /\ q = << >>
    /\ ret' = FALSE
    /\ pc' = "done"
    /\ UNCHANGED puzzle
    /\ UNCHANGED << args, visited, q, u, dist, pending, result, spvars,
                    stack, pushed, expanded, order >>

NextEP == EpCall \/ EpPop \/ EpVisit \/ EpEndFor \/ EpReturn

SpecEP == InitEP /\ [][NextEP]_vars

--------------------------------------------------------------------------
(* shortest_path *)

InitSP ==
    /\ NoPuzzle
    /\ visited = << >>
    /\ op = "sp"
    /\ graph \in Graphs
    /\ targets = {}
    /\ src \in Vertex
    /\ tgt \in Vertex
    /\ ret = None
    /\ Fresh

\* The contents `output` can hold after set_len(output_length): a slot that
\* was written holds what was written, a slot never written is uninitialized
\* memory and may read as any vertex.
Outputs(r) ==
    { p \in [1 .. Len(r) -> Vertex] :
        \A k \in 1 .. Len(r) : r[k] # None => p[k] = r[k][1] }

\* graph.rs 125-137
SpCall ==
    /\ op = "sp" /\ pc = "call"
    /\ IF src = tgt
       THEN /\ ret' = Some(<< src >>)
            /\ pc' = "done"
            /\ UNCHANGED << visited, q, pushed, order >>
       ELSE /\ visited' = (src :> None)
            /\ q' = << << src, 0 >> >>
            /\ pushed' = [pushed EXCEPT ![src] = Inc(@)]
            /\ order' = << src >>
            /\ pc' = "while"
            /\ UNCHANGED ret
    /\ UNCHANGED puzzle
    /\ UNCHANGED << args, u, dist, pending, result, spvars, stack, expanded >>

\* graph.rs 140-141
SpPop ==
    /\ op = "sp" /\ pc = "while" /\ q # << >>
    /\ u' = Head(q)[1]
    /\ dist' = Head(q)[2]
    /\ q' = Tail(q)
    /\ pending' = get_edges(Head(q)[1])
    /\ expanded' = [expanded EXCEPT ![Head(q)[1]] = Inc(@)]
    /\ pc' = "for"
    /\ UNCHANGED puzzle
    /\ UNCHANGED << args, visited, result, ret, spvars, stack, pushed, order >>

\* A mutant of SpVisit: an occupied entry is overwritten (visited.insert in
\* place of the Vacant test), so a later discoverer replaces the parent.
SpVisitOverwrite ==
    /\ op = "sp" /\ pc = "for"
    /\ \E nbr \in pending :
        /\ pending' = pending \ {nbr}
        /\ visited' = IF nbr \in DOMAIN visited
                      THEN [visited EXCEPT ![nbr] = Some(u)]
                      ELSE visited @@ (nbr :> Some(u))
        /\ IF nbr \notin DOMAIN visited
           THEN /\ q' = Append(q, << nbr, dist + 1 >>)
                /\ pushed' = [pushed EXCEPT ![nbr] = Inc(@)]
                /\ order' = Append(order, nbr)
                /\ IF nbr = tgt
                   THEN /\ output_length' = dist + 2
                        /\ rem' = [ k \in 1 .. (dist + 2) |->
                                      IF k = dist + 2 THEN Some(nbr) ELSE None ]
                        /\ cur' = nbr
                        /\ i' = 1
                        /\ pc' = "fill"
                   ELSE UNCHANGED << spvars, pc >>
           ELSE UNCHANGED << q, pushed, order, spvars, pc >>
    /\ UNCHANGED puzzle
    /\ UNCHANGED << args, u, dist, result, ret, stack, expanded >>

\* A mutant of SpVisit: the neighbour is queued with its parent's distance
\* (dist in place of dist + 1).
SpVisitDistNotIncremented ==
    /\ op = "sp" /\ pc = "for"
    /\ \E nbr \in pending :
        /\ pending' = pending \ {nbr}
        /\ IF nbr \notin DOMAIN visited
           THEN /\ visited' = visited @@ (nbr :> Some(u))
                /\ q' = Append(q, << nbr, dist >>)
                /\ pushed' = [pushed EXCEPT ![nbr] = Inc(@)]
                /\ order' = Append(order, nbr)
                /\ IF nbr = tgt
                   THEN /\ output_length' = dist + 2
                        /\ rem' = [ k \in 1 .. (dist + 2) |->
                                      IF k = dist + 2 THEN Some(nbr) ELSE None ]
                        /\ cur' = nbr
                        /\ i' = 1
                        /\ pc' = "fill"
                   ELSE UNCHANGED << spvars, pc >>
           ELSE UNCHANGED << visited, q, pushed, order, spvars, pc >>
    /\ UNCHANGED puzzle
    /\ UNCHANGED << args, u, dist, result, ret, stack, expanded >>

\* graph.rs 141-178: one iteration of the for loop.  When nbr is the target
\* the output buffer is allocated and its last slot written (155-178); slot
\* k of rem is index k - 1 of the Rust slice.
SpVisit ==
    /\ op = "sp" /\ pc = "for"
    /\ \E nbr \in pending :
        /\ pending' = pending \ {nbr}
        /\ IF nbr \notin DOMAIN visited
           THEN /\ visited' = visited @@ (nbr :> Some(u))
                /\ q' = Append(q, << nbr, dist + 1 >>)
                /\ pushed' = [pushed EXCEPT ![nbr] = Inc(@)]
                /\ order' = Append(order, nbr)
                /\ IF nbr = tgt
                   THEN /\ output_length' = dist + 2
                        /\ rem' = [ k \in 1 .. (dist + 2) |->
                                      IF k = dist + 2 THEN Some(nbr) ELSE None ]
                        /\ cur' = nbr
                        /\ i' = 1
                        /\ pc' = "fill"
                   ELSE UNCHANGED << spvars, pc >>
           ELSE UNCHANGED << visited, q, pushed, order, spvars, pc >>
    /\ UNCHANGED puzzle
    /\ UNCHANGED << args, u, dist, result, ret, stack, expanded >>

\* A mutant of SpFill: the slot is written before i is incremented, so
\* every write lands one slot too far back.
SpFillOffByOne ==
    /\ op = "sp" /\ pc = "fill"
    /\ visited[cur] # None
    /\ i' = i + 1
    /\ cur' = visited[cur][1]
    /\ IF output_length - i < 0
       THEN /\ pc' = "panic"
            /\ UNCHANGED rem
       ELSE /\ rem' = [rem EXCEPT ![output_length - i + 1] =
                                        Some(visited[cur][1])]
            /\ UNCHANGED pc
    /\ UNCHANGED puzzle
    /\ UNCHANGED << args, visited, q, u, dist, pending, result, ret,
                    output_length, stack, pushed, expanded, order >>

\* graph.rs 179-183: one iteration of the backward walk.  An index
\* output_length - i below zero, or past the slice, panics.
SpFill ==
    /\ op = "sp" /\ pc = "fill"
    /\ visited[cur] # None
    /\ i' = i + 1
    /\ cur' = visited[cur][1]
    /\ IF output_length - (i + 1) < 0
       THEN /\ pc' = "panic"
            /\ UNCHANGED rem
       ELSE /\ rem' = [rem EXCEPT ![output_length - (i + 1) + 1] =
                                        Some(visited[cur][1])]
            /\ UNCHANGED pc
    /\ UNCHANGED puzzle
    /\ UNCHANGED << args, visited, q, u, dist, pending, result, ret,
                    output_length, stack, pushed, expanded, order >>

\* graph.rs 179, 188-192: the walk reached the vertex whose parent is None;
\* set_len and return Some(output).
SpFound ==
    /\ op = "sp" /\ pc = "fill"
    /\ visited[cur] = None
    /\ \E p \in Outputs(rem) : ret' = Some(p)
    /\ pc' = "done"
    /\ UNCHANGED puzzle
    /\ UNCHANGED << args, visited, q, u, dist, pending, result, spvars,
                    stack, pushed, expanded, order >>

\* A mutant of SpEndFor: `None` is returned at the end of the while body
\* instead of after the loop.
SpEndForReturnsNone ==
    /\ op = "sp" /\ pc = "for" /\ pending = {}
    /\ ret' = None
    /\ pc' = "done"
    /\ UNCHANGED puzzle
    /\ UNCHANGED << args, visited, q, u, dist, pending, result, spvars,
                    stack, pushed, expanded, order >>

\* graph.rs 195: the for loop is exhausted.
SpEndFor ==
    /\ op = "sp" /\ pc = "for" /\ pending = {}
    /\ pc' = "while"
    /\ UNCHANGED puzzle
    /\ UNCHANGED << args, visited, q, u, dist, pending, result, ret, spvars,
                    stack, pushed, expanded, order >>

\* graph.rs 140, 198: pop_front yields None; None is returned.
SpReturn ==
    /\ op = "sp" /\ pc = "while" /\ q = << >>
    /\ ret' = None
    /\ pc' = "done"
    /\ UNCHANGED puzzle
    /\ UNCHANGED << args, visited, q, u, dist, pending, result, spvars,
                    stack, pushed, expanded, order >>

NextSP ==
    SpCall \/ SpPop \/ SpVisit \/ SpFill \/ SpFound \/ SpEndFor \/ SpReturn

SpecSP == InitSP /\ [][NextSP]_vars

--------------------------------------------------------------------------
(* num_of_paths *)

InitNP ==
    /\ NoPuzzle
    /\ visited = {}
    /\ op = "np"
    /\ graph \in Graphs
    /\ targets \in SUBSET Vertex
    /\ src \in Vertex
    /\ tgt = 0
    /\ ret = 0
    /\ Fresh

\* A call of num_of_paths(x, ..): count = 0 and the for loop over
\* get_edges(x) not yet started (graph.rs 210-211).
Frame(x) == [ v |-> x, pending |-> get_edges(x), count |-> 0 ]

Top == stack[Len(stack)]

\* stack with its innermost frame replaced by f
SetTop(f) == [stack EXCEPT ![Len(stack)] = f]

\* graph.rs 201-211: the outermost call
NpCall ==
    /\ op = "np" /\ pc = "call"
    /\ stack' = << Frame(src) >>
    /\ pc' = "run"
    /\ UNCHANGED puzzle
    /\ UNCHANGED << args, visited, q, u, dist, pending, result, ret, spvars,
                    pushed, expanded, order >>

\* A mutant of NpVisit: the nested call is made on src instead of nbr.
NpVisitRecurseSrc ==
    /\ op = "np" /\ pc = "run" /\ stack # << >>
    /\ \E nbr \in Top.pending :
        IF is_tgt(nbr)
        THEN stack' = SetTop([Top EXCEPT !.pending = @ \ {nbr},
                                         !.count = @ + 1])
        ELSE /\ Len(stack) < MaxDepth
             /\ stack' = Append(SetTop([Top EXCEPT !.pending = @ \ {nbr}]),
                                Frame(src))
    /\ UNCHANGED puzzle
    /\ UNCHANGED << args, pc, visited, q, u, dist, pending, result, ret,
                    spvars, pushed, expanded, order >>

\* A mutant of NpVisit: a neighbour whose call is already on the stack is
\* skipped (a cycle guard).
NpVisitCycleGuard ==
    /\ op = "np" /\ pc = "run" /\ stack # << >>
    /\ \E nbr \in Top.pending :
        IF is_tgt(nbr)
        THEN stack' = SetTop([Top EXCEPT !.pending = @ \ {nbr},
                                         !.count = @ + 1])
        ELSE IF nbr \in { stack[k].v : k \in 1 .. Len(stack) }
        THEN stack' = SetTop([Top EXCEPT !.pending = @ \ {nbr}])
        ELSE /\ Len(stack) < MaxDepth
             /\ stack' = Append(SetTop([Top EXCEPT !.pending = @ \ {nbr}]),
                                Frame(nbr))
    /\ UNCHANGED puzzle
    /\ UNCHANGED << args, pc, visited, q, u, dist, pending, result, ret,
                    spvars, pushed, expanded, order >>

\* graph.rs 211-216: one iteration of the for loop of the innermost call.
\* A neighbour that is not a target starts a nested call; nesting is
\* followed down to MaxDepth frames.
NpVisit ==
    /\ op = "np" /\ pc = "run" /\ stack # << >>
    /\ \E nbr \in Top.pending :
        IF is_tgt(nbr)
        THEN stack' = SetTop([Top EXCEPT !.pending = @ \ {nbr},
                                         !.count = @ + 1])
        ELSE /\ Len(stack) < MaxDepth
             /\ stack' = Append(SetTop([Top EXCEPT !.pending = @ \ {nbr}]),
                                Frame(nbr))
    /\ UNCHANGED puzzle
    /\ UNCHANGED << args, pc, visited, q, u, dist, pending, result, ret,
                    spvars, pushed, expanded, order >>

\* A mutant of NpReturn: the nested call's value replaces the caller's
\* count (= in place of +=).
NpReturnOverwrite ==
    /\ op = "np" /\ pc = "run" /\ stack # << >>
    /\ Top.pending = {}
    /\ IF Len(stack) = 1
       THEN /\ ret' = Top.count
            /\ stack' = << >>
            /\ pc' = "done"
       ELSE /\ stack' = [ k \in 1 .. (Len(stack) - 1) |->
                            IF k = Len(stack) - 1
                            THEN [stack[k] EXCEPT !.count = Top.count]
                            ELSE stack[k] ]
            /\ UNCHANGED << ret, pc >>
    /\ UNCHANGED puzzle
    /\ UNCHANGED << args, visited, q, u, dist, pending, result, spvars,
                    pushed, expanded, order >>

\* graph.rs 215, 218: the innermost call returns count; a nested call's
\* value is added to its caller's count, the outermost call's is the result.
NpReturn ==
    /\ op = "np" /\ pc = "run" /\ stack # << >>
    /\ Top.pending = {}
    /\ IF Len(stack) = 1
       THEN /\ ret' = Top.count
            /\ stack' = << >>
            /\ pc' = "done"
       ELSE /\ stack' = [ k \in 1 .. (Len(stack) - 1) |->
                            IF k = Len(stack) - 1
                            THEN [stack[k] EXCEPT !.count = @ + Top.count]
                            ELSE stack[k] ]
            /\ UNCHANGED << ret, pc >>
    /\ UNCHANGED puzzle
    /\ UNCHANGED << args, visited, q, u, dist, pending, result, spvars,
                    pushed, expanded, order >>

NextNP == NpCall \/ NpVisit \/ NpReturn

SpecNP == InitNP /\ [][NextNP]_vars

--------------------------------------------------------------------------
(* Manifold::run1 of src/days/day07.rs *)
(*                                                                         *)
(* A position is << row, column >>, rows and columns counted from 0.  The  *)
(* grid is a function from positions to Node.  Init is the Manifold that   *)
(* from_grid built: start found, num_splits = 0.  A grid without 'S' makes *)
(* from_grid panic, so no Manifold exists for it.                          *)

MaxN == 3

MaxM == 3

MaxSplitters == 3

\* Node::End is never constructed by Node::from_char.
Node == { "Start", "Empty", "Splitter" }

Cells(rows, cols) == (0 .. rows - 1) \X (0 .. cols - 1)

\* The order in which _find_start scans the grid.
RowMajorBefore(a, b) == a[1] < b[1] \/ (a[1] = b[1] /\ a[2] < b[2])

\* The first Start cell, row by row and left to right.
_find_start(g) ==
    CHOOSE a \in DOMAIN g :
        /\ g[a] = "Start"
        /\ \A b \in DOMAIN g : g[b] = "Start" => (a = b \/ RowMajorBefore(a, b))

\* The lookups self.grid[r + 1][c] of get_beam_nbrs stay inside the grid.
InGrid(pos) == pos[1] + 1 = n \/ << pos[1] + 1, pos[2] >> \in DOMAIN grid

\* get_beam_nbrs takes the branch that counts a split.
Splits(pos) ==
    /\ pos[1] + 1 # n
    /\ grid[<< pos[1] + 1, pos[2] >>] = "Splitter"

\* get_beam_nbrs without the test c + 1 < self.m.
get_beam_nbrs_no_right_edge(pos) ==
    LET r == pos[1]
        c == pos[2]
    IN  IF r + 1 = n THEN {}
        ELSE IF grid[<< r + 1, c >>] # "Splitter" THEN { << r + 1, c >> }
        ELSE (IF c > 0 THEN { << r + 1, c - 1 >> } ELSE {})
             \cup { << r + 1, c + 1 >> }

\* The positions get_beam_nbrs returns; its caller only ever extends a set
\* with them, so their order in the Vec is dropped.
get_beam_nbrs(pos) ==
    LET r == pos[1]
        c == pos[2]
    IN  IF r + 1 = n THEN {}
        ELSE IF grid[<< r + 1, c >>] # "Splitter" THEN { << r + 1, c >> }
        ELSE (IF c > 0 THEN { << r + 1, c - 1 >> } ELSE {})
             \cup (IF c + 1 < m THEN { << r + 1, c + 1 >> } ELSE {})

InitDay07 ==
    /\ op = "run1"
    /\ NoGraph
    /\ Fresh
    /\ ret = 0
    /\ NoDay12
    /\ \E rows \in 1 .. MaxN, cols \in 1 .. MaxM :
         \E s1, s2 \in Cells(rows, cols) :
           \E sp \in SUBSET (Cells(rows, cols) \ { s1, s2 }) :
             /\ Cardinality(sp) <= MaxSplitters
             /\ n = rows
             /\ m = cols
             /\ grid = [ a \in Cells(rows, cols) |->
                           IF a \in { s1, s2 } THEN "Start"
                           ELSE IF a \in sp THEN "Splitter"
                           ELSE "Empty" ]
    /\ start = _find_start(grid)
    /\ num_splits = 0
    /\ beams = {}
    /\ updates = 0
    /\ occupied = {}
    /\ hits = [ a \in DOMAIN grid |-> 0 ]

\* let mut beams = HashSet::new(); beams.insert(self.start);
Run1Call ==
    /\ op = "run1" /\ pc = "call"
    /\ beams' = { start }
    /\ occupied' = { start }
    /\ pc' = "loop"
    /\ UNCHANGED << args, visited, q, u, dist, pending, result, ret, spvars,
                    stack, pushed, expanded, order >>
    /\ UNCHANGED << grid, n, m, start, num_splits, updates, hits, day12vars >>

\* One turn of the while loop: beams = self.update(beams).  update drains
\* the set, calls get_beam_nbrs on every beam and collects what it returns.
Run1Update ==
    /\ op = "run1" /\ pc = "loop"
    /\ beams # {}
    /\ IF \A b \in beams : InGrid(b)
       THEN /\ beams' = UNION { get_beam_nbrs(b) : b \in beams }
            /\ num_splits' =
                 num_splits + Cardinality({ b \in beams : Splits(b) })
            /\ hits' = [ a \in DOMAIN grid |->
                           hits[a] + Cardinality({ b \in beams :
                               Splits(b) /\ a = << b[1] + 1, b[2] >> }) ]
            /\ occupied' = occupied \cup beams'
            /\ updates' = updates + 1
            /\ pc' = "loop"
       ELSE /\ pc' = "panic"
            /\ UNCHANGED << beams, num_splits, hits, occupied, updates >>
    /\ UNCHANGED << args, visited, q, u, dist, pending, result, ret, spvars,
                    stack, pushed, expanded, order >>
    /\ UNCHANGED << grid, n, m, start, day12vars >>

\* while !beams.is_empty() fails: run1 is over.
Run1Exit ==
    /\ op = "run1" /\ pc = "loop"
    /\ beams = {}
    /\ pc' = "done"
    /\ UNCHANGED << args, visited, q, u, dist, pending, result, ret, spvars,
                    stack, pushed, expanded, order >>
    /\ UNCHANGED puzzle

NextDay07 == Run1Call \/ Run1Update \/ Run1Exit

SpecDay07 == InitDay07 /\ [][NextDay07]_vars

--------------------------------------------------------------------------
(* get_components of src/days/day12.rs *)
(*                                                                         *)
(* Coords are << row, column >>.  The grid is a function from Coords to    *)
(* characters.  Of the modules direction and uptree only the uses in      *)
(* day12.rs are modelled: Direction::to_num follows the layout comment of  *)
(* struct Nbrs, and the UpTree is taken as a disjoint-set forest, held     *)
(* here as the set of its components.                                      *)

MaxHeight == 2

MaxWidth == 3

Chars == { "A", "B" }

\* Direction::to_num, by the layout
\* [north,northeast,east,southeast,south,southwest,west,northwest].
to_num(dir) ==
    CASE dir = "N" -> 0
      [] dir = "NE" -> 1
      [] dir = "E" -> 2
      [] dir = "SE" -> 3
      [] dir = "S" -> 4
      [] dir = "SW" -> 5
      [] dir = "W" -> 6
      [] dir = "NW" -> 7

\* UpTree::insert_root: x becomes a component of its own.
insert_root(t, x) == t \cup { { x } }

\* The component of x.
find(t, x) == CHOOSE c \in t : x \in c

\* UpTree::union: the components of a and b become one.
union(t, a, b) == (t \ { find(t, a), find(t, b) }) \cup { find(t, a) \cup find(t, b) }

\* UpTree::flatten: the components.
flatten(t) == t

\* Nbrs::new
new == [ nbrs |-> [ k \in 0 .. 7 |-> None ], count |-> 0 ]

\* Nbrs::add, without the returned bool, which get_components drops.
add(nb, dir, coords) ==
    [ nbrs |-> [ nb.nbrs EXCEPT ![to_num(dir)] = Some(coords) ],
      count |-> IF nb.nbrs[to_num(dir)] = None THEN nb.count + 1
                ELSE nb.count ]

\* The Coords of the slots `slots` of nb that are Some, in that order.
present(nb, slots) ==
    LET idx == SelectSeq(slots, LAMBDA k : nb.nbrs[k] # None)
    IN  [ x \in 1 .. Len(idx) |-> nb.nbrs[idx[x]][1] ]

\* get_cardinals going through all eight slots.
get_all_eight(nb) == present(nb, << 0, 1, 2, 3, 4, 5, 6, 7 >>)

\* Nbrs::get_cardinals, without the Direction of each pair, which the loop
\* of get_components ignores.
get_cardinals(nb) == present(nb, << 0, 2, 4, 6 >>)

\* if cond { nb.add(dir, coords); }
add_if(nb, cond, dir, coords) == IF cond THEN add(nb, dir, coords) ELSE nb

\* What the body of the inner for loop leaves in filtered_nbrs_grid[r][c].
cell_nbrs(r, c) ==
    LET ch == grid[<< r, c >>]
        north == r > 0
        south == r + 1 < height
        east == c + 1 < width
        west == c > 0
        a1 == add_if(new, north /\ grid[<< r - 1, c >>] = ch,
                     "N", << r - 1, c >>)
        a2 == add_if(a1, south /\ grid[<< r + 1, c >>] = ch,
                     "S", << r + 1, c >>)
        a3 == add_if(a2, east /\ grid[<< r, c + 1 >>] = ch,
                     "E", << r, c + 1 >>)
        a4 == add_if(a3, east /\ north /\ grid[<< r - 1, c + 1 >>] = ch,
                     "NE", << r - 1, c + 1 >>)
        a5 == add_if(a4, east /\ south /\ grid[<< r + 1, c + 1 >>] = ch,
                     "SE", << r + 1, c + 1 >>)
        a6 == add_if(a5, west /\ grid[<< r, c - 1 >>] = ch,
                     "W", << r, c - 1 >>)
        a7 == add_if(a6, west /\ north /\ grid[<< r - 1, c - 1 >>] = ch,
                     "NW", << r - 1, c - 1 >>)
        a8 == add_if(a7, west /\ south /\ grid[<< r + 1, c - 1 >>] = ch,
                     "SW", << r + 1, c - 1 >>)
    IN  a8

RECURSIVE union_each(_, _, _)
\* for w in ws { ut.union(&w, &v); }
union_each(t, ws, v) ==
    IF ws = << >> THEN t
    ELSE union_each(union(t, Head(ws), v), Tail(ws), v)

InitDay12 ==
    /\ op = "gc"
    /\ NoGraph
    /\ Fresh
    /\ ret = 0
    /\ NoDay07
    /\ NoDay12
    /\ \E rows \in 1 .. MaxHeight, cols \in 1 .. MaxWidth :
         grid \in [ Cells(rows, cols) -> Chars ]

\* Lines 67-73: the locals before the first loop.
GcCall ==
    /\ op = "gc" /\ pc = "call"
    /\ height' = Cardinality({ a[1] : a \in DOMAIN grid })
    /\ width' = Cardinality({ a[2] : a \in DOMAIN grid })
    /\ ut' = {}
    /\ q' = << >>
    /\ seen' = {}
    /\ filtered_nbrs_grid' = << >>
    /\ i' = 0
    /\ j' = 0
    /\ pc' = "build"
    /\ UNCHANGED << args, visited, u, dist, pending, result, ret,
                    output_length, rem, cur, stack, pushed, expanded, order >>
    /\ UNCHANGED << grid, day07vars, unions >>

\* One turn of the inner for loop, for the cell (i, j), and the step to the
\* next cell in row order.
GcBuild ==
    /\ op = "gc" /\ pc = "build"
    /\ filtered_nbrs_grid' =
         filtered_nbrs_grid @@ (<< i, j >> :> cell_nbrs(i, j))
    /\ q' = Append(q, << i, j >>)
    /\ ut' = insert_root(ut, << i, j >>)
    /\ IF j + 1 < width THEN i' = i /\ j' = j + 1 /\ pc' = "build"
       ELSE IF i + 1 < height THEN i' = i + 1 /\ j' = 0 /\ pc' = "build"
       ELSE i' = i /\ j' = j /\ pc' = "loop"
    /\ UNCHANGED << args, visited, u, dist, pending, result, ret,
                    output_length, rem, cur, stack, pushed, expanded, order >>
    /\ UNCHANGED << grid, day07vars, height, width, seen, unions >>

\* One turn of the while loop: pop v from the back, union it with every
\* cardinal neighbour not yet in seen, put v in seen.
GcPop ==
    /\ op = "gc" /\ pc = "loop"
    /\ q # << >>
    /\ LET v == q[Len(q)]
           ws == SelectSeq(get_cardinals(filtered_nbrs_grid[v]),
                           LAMBDA w : w \notin seen)
       IN  /\ q' = SubSeq(q, 1, Len(q) - 1)
           /\ ut' = union_each(ut, ws, v)
           /\ unions' = unions \o [ k \in 1 .. Len(ws) |-> << ws[k], v >> ]
           /\ seen' = seen \cup { v }
    /\ pc' = "loop"
    /\ UNCHANGED << args, visited, u, dist, pending, result, ret, spvars,
                    stack, pushed, expanded, order >>
    /\ UNCHANGED << grid, day07vars, height, width, filtered_nbrs_grid, j >>

\* The queue is empty: return (filtered_nbrs_grid, ut.flatten()...).
GcReturn ==
    /\ op = "gc" /\ pc = "loop"
    /\ q = << >>
    /\ ret' = [ nbrs |-> filtered_nbrs_grid, regions |-> flatten(ut) ]
    /\ pc' = "done"
    /\ UNCHANGED << args, visited, q, u, dist, pending, result, spvars,
                    stack, pushed, expanded, order >>
    /\ UNCHANGED puzzle

NextDay12 == GcCall \/ GcBuild \/ GcPop \/ GcReturn

SpecDay12 == InitDay12 /\ [][NextDay12]_vars

--------------------------------------------------------------------------
(* The three breadth-first searches together, and all the functions *)

InitBFS == InitNRT \/ InitEP \/ InitSP

NextBFS == NextNRT \/ NextEP \/ NextSP

SpecBFS == InitBFS /\ [][NextBFS]_vars

\* Where a breadth-first search stands in its code: every step of the three
\* searches changes it.
bfs_position == << pc, pending, i >>

\* The searches are ordinary sequential code: a call always takes its next
\* step.
FairSpecBFS == SpecBFS /\ WF_bfs_position(NextBFS)

Init == InitBFS \/ InitNP \/ InitDay07 \/ InitDay12

Next == NextBFS \/ NextNP \/ NextDay07 \/ NextDay12

Spec == Init /\ [][Next]_vars

--------------------------------------------------------------------------
(* Graph notions the claims are stated in.  They are computed from the     *)
(* edge relation alone, by set closure and level sets, not by the searches.*)

RECURSIVE Closure(_)
\* The least set containing S and closed under get_edges.
Closure(S) ==
    LET T == S \cup UNION { get_edges(v) : v \in S }
    IN  IF T = S THEN S ELSE Closure(T)

\* The vertices reachable from s by zero or more edges.
Reach(s) == Closure({s})

\* The vertices reachable from s by one or more edges.
ReachPlus(s) == Closure(get_edges(s))

StronglyConnected == \A v \in Vertex : Reach(v) = Vertex

RECURSIVE DistFrom(_, _, _, _)
\* d + the number of edges from the level set `frontier` to t, or -1.
DistFrom(found, frontier, t, d) ==
    IF t \in frontier THEN d
    ELSE IF frontier = {} THEN -1
    ELSE LET nxt == UNION { get_edges(v) : v \in frontier } \ found
         IN  DistFrom(found \cup nxt, nxt, t, d + 1)

\* The unweighted graph distance from s to t, or -1 when there is none.
Distance(s, t) == DistFrom({s}, {s}, t, 0)

\* The set of vertices in visited, whichever the collection.
VisitedSet == IF op = "sp" THEN DOMAIN visited ELSE visited

\* The vertices now in the queue.
Queued ==
    IF op = "sp" THEN { q[k][1] : k \in 1 .. Len(q) }
    ELSE { q[k] : k \in 1 .. Len(q) }

--------------------------------------------------------------------------
(* Claims *)

\* C1: when num_reachable_targets returns, the value is the number of
\* distinct vertices reachable from src (by zero or more edges) that satisfy
\* is_tgt; on a strongly connected graph that is the number of all
\* satisfying vertices, whatever the source.
C1_CountsReachableTargets ==
    (op = "nrt" /\ pc = "done") =>
        /\ ret = Cardinality(Reach(src) \cap targets)
        /\ StronglyConnected => ret = Cardinality(targets)

\* A returned call whose source satisfies the predicate and lies on a cycle
\* back to itself, with a second reachable target and an unreachable one.
C1_Witness ==
    /\ op = "nrt" /\ pc = "done"
    /\ is_tgt(src)
    /\ src \in ReachPlus(src)
    /\ \E v \in targets : v \notin Reach(src)
    /\ ret = 2

\* C2: a path returned by shortest_path has (graph distance + 1) vertices,
\* starts at src, ends at tgt and follows edges of get_edges; for
\* src = tgt the result is exactly [src].
C2_ShortestPathIsShortest ==
    (op = "sp" /\ pc = "done" /\ ret # None) =>
        LET p == ret[1] IN
        /\ Len(p) = Distance(src, tgt) + 1
        /\ p[1] = src
        /\ p[Len(p)] = tgt
        /\ \A k \in 1 .. (Len(p) - 1) : p[k + 1] \in get_edges(p[k])
        /\ src = tgt => p = << src >>

\* A returned path of three vertices on a graph with a cycle: the target
\* has an edge back to src.
C2_Witness ==
    /\ op = "sp" /\ pc = "done" /\ ret # None
    /\ Len(ret[1]) = 3
    /\ src \in get_edges(tgt)

\* C3: shortest_path returns None exactly when tgt is not reachable from
\* src, and then only with the queue empty and tgt never discovered; a
\* returned path has every slot written, and the call never panics.
C3_NoneIffUnreachable ==
    (op = "sp") =>
        /\ pc # "panic"
        /\ pc = "done" =>
            /\ ret = None <=> tgt \notin Reach(src)
            /\ ret = None => (q = << >> /\ tgt \notin DOMAIN visited)
            /\ (ret # None /\ src # tgt) =>
                 /\ Len(rem) = output_length
                 /\ \A k \in 1 .. Len(rem) : rem[k] # None
                 /\ ret[1] = [ k \in 1 .. Len(rem) |-> rem[k][1] ]

\* None is returned after a search that did visit other vertices than src.
C3_Witness ==
    /\ op = "sp" /\ pc = "done" /\ ret = None
    /\ Cardinality(DOMAIN visited) = NumVerts - 1

\* C4: exists_path returns true exactly when tgt is reachable from src by
\* zero or more edges; so exists_path(src, src, ..) is true on every graph.
C4_ExistsIffReachable ==
    (op = "ep" /\ pc = "done") =>
        /\ ret <=> tgt \in Reach(src)
        /\ src = tgt => ret

\* true is returned for src = tgt where src has no neighbours.
C4_Witness ==
    /\ op = "ep" /\ pc = "done"
    /\ src = tgt /\ get_edges(src) = {}
    /\ ret

--------------------------------------------------------------------------
(* Walks, and the region num_of_paths recurses into *)

\* The walks of P, each extended by one edge.
Extend(P) ==
    UNION { { Append(p, w) : w \in get_edges(p[Len(p)]) } : p \in P }

RECURSIVE WalksVia(_, _)
\* The walks that extend a walk of `open` by at most k edges, stop at the
\* first vertex satisfying is_tgt after their start, and do stop at one.
WalksVia(open, k) ==
    IF k = 0 \/ open = {} THEN {}
    ELSE LET ext == Extend(open)
         IN  { p \in ext : is_tgt(p[Len(p)]) }
               \cup WalksVia({ p \in ext : ~is_tgt(p[Len(p)]) }, k - 1)

\* The walks of at least one edge from s to a satisfying vertex that pass
\* through no satisfying vertex in between (up to MaxDepth edges).
TerminatingWalks(s) == WalksVia({ << s >> }, MaxDepth)

\* The same, where a walk also terminates the instant it starts at a
\* satisfying vertex: from such a source the only walk is the empty one.
InstantWalks(s) == IF is_tgt(s) THEN { << s >> } ELSE TerminatingWalks(s)

RECURSIVE ClosureIn(_, _)
\* The least set containing S and closed under the edges that lead into X.
ClosureIn(S, X) ==
    LET T == S \cup (UNION { get_edges(v) : v \in S } \cap X)
    IN  IF T = S THEN S ELSE ClosureIn(T, X)

NonTargets == Vertex \ targets

\* The vertices num_of_paths can be called on: src, and every non-satisfying
\* vertex reached from it through non-satisfying vertices.
Expandable == ClosureIn({src}, NonTargets)

\* v lies on a cycle all of whose vertices are in X.
OnCycleIn(v, X) == v \in X /\ v \in ClosureIn(get_edges(v) \cap X, X)

\* The graph induced on X has no cycle.
Acyclic(X) == \A v \in X : ~OnCycleIn(v, X)

\* Some cycle of non-satisfying vertices is reachable from src.
CycleAvoidingTargetsReachable ==
    \E v \in Reach(src) : OnCycleIn(v, NonTargets)

\* Some cycle of non-satisfying vertices is reachable from src along a walk
\* whose vertices after src are all non-satisfying.
CycleAvoidingTargetsEntered ==
    \E v \in Expandable : OnCycleIn(v, NonTargets)

\* The calls of num_of_paths whose arguments meet the caller's obligation:
\* src and the non-satisfying vertices reached from it through
\* non-satisfying vertices form a DAG.
InitNPDag == InitNP /\ Acyclic(Expandable)

\* Where the recursion stands: every step of num_of_paths changes it.
np_position == << pc, stack >>

\* The recursion is ordinary sequential code: it always takes its next step.
FairSpecNP == InitNPDag /\ [][NextNP]_vars /\ WF_np_position(NextNP)

--------------------------------------------------------------------------

\* C5 (as stated): when num_of_paths returns, the value is the number of
\* distinct walks from src to a satisfying vertex, a walk ending the instant
\* it is at a satisfying vertex - also for a source that satisfies the
\* predicate, whose only such walk is the empty one.
C5_AsStated ==
    (op = "np" /\ pc = "done") => ret = Cardinality(InstantWalks(src))

\* C5 (amended): when num_of_paths returns, the value is the number of
\* distinct walks of at least one edge from src to a satisfying vertex that
\* meet no satisfying vertex strictly between their ends.  For a source
\* that does not satisfy the predicate these are the walks of the claim; a
\* source that satisfies it is expanded all the same.
C5_CountsWalksOfOneOrMoreEdges ==
    (op = "np" /\ pc = "done") =>
        /\ ret = Cardinality(TerminatingWalks(src))
        /\ ~is_tgt(src) => ret = Cardinality(InstantWalks(src))

\* A returned call from a satisfying source where one target is reached by
\* two distinct walks.
C5_Witness ==
    /\ op = "np" /\ pc = "done"
    /\ is_tgt(src)
    /\ \E v \in targets :
        Cardinality({ p \in TerminatingWalks(src) : p[Len(p)] = v }) = 2
    /\ ret >= 2

\* C6: every call of num_reachable_targets, exists_path and shortest_path
\* eventually returns, on every graph (cycles and self-loops included).
C6_SearchesTerminate == <>(pc = "done")

\* A returned search on a graph with a self-loop at src and a cycle through
\* another reachable vertex.
C6_Witness ==
    /\ op = "nrt" /\ pc = "done"
    /\ src \in get_edges(src)
    /\ \E v \in Reach(src) \ {src} : v \in ReachPlus(v)

\* C7: if src and the non-satisfying vertices reached from it through
\* non-satisfying vertices form a DAG, num_of_paths eventually returns.
C7_TerminatesOnDAG ==
    (op = "np" /\ Acyclic(Expandable)) => <>(pc = "done")

\* A returned call on such a DAG that made a nested call and counted two
\* walks.
C7_Witness ==
    /\ op = "np" /\ pc = "done"
    /\ Acyclic(Expandable)
    /\ Cardinality(Expandable) >= 2
    /\ ret >= 2

\* C8 (as stated): whenever a cycle of non-satisfying vertices is reachable
\* from src - also one reachable only through a satisfying vertex -
\* num_of_paths never returns: a call that has returned had no such cycle.
C8_AsStated ==
    (op = "np" /\ pc = "done") => ~CycleAvoidingTargetsReachable

\* C8 (amended): whenever a cycle of non-satisfying vertices is reachable
\* from src along a walk whose vertices after src are all non-satisfying,
\* num_of_paths never returns: a call that has returned had no such cycle.
C8_NeverReturnsOnEnteredCycle ==
    (op = "np" /\ pc = "done") => ~CycleAvoidingTargetsEntered

\* The recursion has gone around such a cycle: the same vertex is the
\* argument of two nested calls, at the deepest nesting followed.
C8_Witness ==
    /\ op = "np" /\ CycleAvoidingTargetsEntered
    /\ Len(stack) = MaxDepth
    /\ \E h, k \in 1 .. Len(stack) : h < k /\ stack[h].v = stack[k].v

\* C9: in the three searches a vertex is pushed onto the queue at most once
\* and popped (expanded) at most once, and every vertex that is or was in
\* the queue, and every visited vertex, is visited and reachable from src.
C9_EnqueuedAtMostOnce ==
    (op \in {"nrt", "ep", "sp"}) =>
        /\ \A v \in Vertex :
            /\ pushed[v] <= 1
            /\ expanded[v] <= pushed[v]
            /\ pushed[v] > 0 => (v \in VisitedSet /\ v \in Reach(src))
        /\ Queued \subseteq { v \in Vertex : pushed[v] > 0 }
        /\ VisitedSet \subseteq Reach(src)

\* A finished traversal in which src was met again over a cycle, with a
\* component of the graph left unvisited.
C9_Witness ==
    /\ op = "nrt" /\ pc = "done"
    /\ src \in ReachPlus(src)
    /\ pushed[src] = 1 /\ expanded[src] = 1
    /\ \E v \in Vertex : v \notin Reach(src) /\ get_edges(v) # {}

\* Position of v in the order of entering visited.
Pos(v) == CHOOSE k \in 1 .. Len(order) : order[k] = v

RECURSIVE Chain(_, _)
\* v, its parent, its parent's parent, ..: at most fuel parent steps.
Chain(v, fuel) ==
    IF visited[v] = None \/ fuel = 0 THEN << v >>
    ELSE << v >> \o Chain(visited[v][1], fuel - 1)

\* C10: at every step of shortest_path the parent pointers form a tree
\* rooted at src: src alone maps to None, every other visited vertex maps to
\* a vertex visited earlier of which it is a neighbour, and the parents of
\* any visited vertex lead to src without repeating a vertex.
C10_ParentTree ==
    (op = "sp" /\ pc # "call" /\ src # tgt) =>
        /\ src \in DOMAIN visited
        /\ \A v \in DOMAIN visited :
            /\ visited[v] = None <=> v = src
            /\ v # src =>
                 /\ visited[v][1] \in DOMAIN visited
                 /\ v \in get_edges(visited[v][1])
                 /\ Pos(visited[v][1]) < Pos(v)
            /\ LET c == Chain(v, Cardinality(DOMAIN visited))
               IN  /\ c[Len(c)] = src
                   /\ \A h, k \in 1 .. Len(c) : c[h] = c[k] => h = k

\* Three visited vertices, one whose parent is not src and which has an
\* edge back to src.
C10_Witness ==
    /\ op = "sp" /\ pc # "call" /\ src # tgt
    /\ Cardinality(DOMAIN visited) = 3
    /\ \E v \in DOMAIN visited :
        /\ visited[v] # None
        /\ visited[v][1] # src
        /\ src \in get_edges(v)

\* C11: when shortest_path discovers tgt as a neighbour of the dequeued
\* entry (u, dist), dist is the graph distance from src to u and the parent
\* chain from tgt has dist + 2 vertices; during the backward fill the slots
\* written are exactly the last i of the output_length = dist + 2 slots (one
\* new slot per step, so each index is written once), the index
\* output_length - i is never below 0, and the walk ends, at the vertex
\* whose parent is None, exactly at index 0; the call never panics.
C11_BackwardFillExact ==
    (op = "sp") =>
        /\ pc # "panic"
        /\ (pc = "fill" \/ (pc = "done" /\ ret # None /\ src # tgt)) =>
            /\ dist = Distance(src, u)
            /\ visited[tgt] = Some(u)
            /\ output_length = dist + 2
            /\ Len(Chain(tgt, NumVerts + 1)) = dist + 2
            /\ Len(rem) = output_length
            /\ i >= 1
            /\ output_length - i >= 0
            /\ \A k \in 1 .. output_length :
                 rem[k] # None <=> k > output_length - i
            /\ rem[output_length - i + 1] = Some(cur)
            /\ visited[cur] = None <=> output_length - i = 0
            /\ pc = "done" => output_length - i = 0

\* The backward walk has arrived at index 0 of a three-slot buffer.
C11_Witness ==
    /\ op = "sp" /\ pc = "fill"
    /\ output_length = 3
    /\ i = 3
    /\ visited[cur] = None

--------------------------------------------------------------------------
(* The searches run with one fixed enumeration order *)

RECURSIVE SortAsc(_)
\* The elements of S in ascending order.
SortAsc(S) ==
    IF S = {} THEN << >>
    ELSE LET mn == CHOOSE x \in S : \A y \in S : x <= y
         IN  << mn >> \o SortAsc(S \ {mn})

RECURSIVE AscendingSearch(_, _, _)
\* The breadth-first search from the queue qq that enumerates every
\* neighbour set in ascending order: entered lists the vertices in the order
\* they enter visited, d maps each to its distance from src.
AscendingSearch(entered, qq, d) ==
    IF qq = << >> THEN [ order |-> entered, dist |-> d ]
    ELSE LET x == Head(qq)
             unvisited == SortAsc(get_edges(x) \ DOMAIN d)
         IN  AscendingSearch(
                 entered \o unvisited,
                 Tail(qq) \o unvisited,
                 d @@ [ w \in get_edges(x) \ DOMAIN d |-> d[x] + 1 ])

Ascending == AscendingSearch(<< src >>, << src >>, (src :> 0))

\* What a call returns, up to the choice among shortest paths: the count,
\* the boolean, or the number of vertices of the path (0 for None).
Outcome ==
    IF op = "sp" THEN (IF ret = None THEN 0 ELSE Len(ret[1])) ELSE ret

\* The outcome of the run that enumerates in ascending order.
AscendingOutcome ==
    LET a == Ascending IN
    CASE op = "nrt" -> Cardinality(DOMAIN a.dist \cap targets)
      [] op = "ep" -> tgt \in DOMAIN a.dist
      [] op = "sp" -> IF tgt \in DOMAIN a.dist THEN a.dist[tgt] + 1 ELSE 0

\* C12: the results of the three searches do not depend on the order in
\* which neighbour sets are enumerated: every run, whatever its order,
\* returns what the run in ascending order returns on the same arguments -
\* the same count, the same boolean, None in both or paths of one length.
C12_ResultIndependentOfOrder ==
    (op \in {"nrt", "ep", "sp"} /\ pc = "done") => Outcome = AscendingOutcome

\* A returned search that discovered the vertices in another order than the
\* ascending one and counted a target.
C12_Witness ==
    /\ op = "nrt" /\ pc = "done"
    /\ order # Ascending.order
    /\ ret >= 1

--------------------------------------------------------------------------
(* The beam simulation *)

\* The splitter cells (r + 1, c) such that a beam was at (r, c) when update
\* drained the set it was in.
SplittersBelowBeams ==
    { a \in DOMAIN grid :
        /\ grid[a] = "Splitter"
        /\ << a[1] - 1, a[2] >> \in occupied \ beams }

\* C13: in Manifold::run1, after every call of update all beams lie in one
\* row, one greater than before the update, and no beam has a row >= n or
\* a column >= m; so the loop ends with an empty beam set after at most
\* n - start_row updates, no splitter cell is counted in num_splits more
\* than once, and num_splits is the number of splitter cells (r + 1, c)
\* for which a beam occupied (r, c).
C13_BeamsDescendRowByRow ==
    (op = "run1") =>
        /\ pc # "panic"
        /\ \A b \in beams : b[1] = start[1] + updates
        /\ \A b \in beams : b[1] < n /\ b[2] < m
        /\ updates <= n - start[1]
        /\ updates = n - start[1] => beams = {}
        /\ pc = "done" => beams = {}
        /\ \A a \in DOMAIN grid : hits[a] <= 1
        /\ num_splits = Cardinality(SplittersBelowBeams)

\* A run to the bottom row that counted three splitters, two of them sending
\* a beam to the same cell.
C13_Witness ==
    /\ op = "run1" /\ pc = "done"
    /\ updates = 3
    /\ num_splits = 3
    /\ \E a, b \in DOMAIN grid :
         /\ a # b /\ a[1] = b[1] /\ hits[a] = 1 /\ hits[b] = 1
         /\ << a[1], a[2] + 1 >> = << b[1], b[2] - 1 >>

--------------------------------------------------------------------------
(* Regions of the grid *)

\* a and b are cells next to each other in a row or a column and hold the
\* same character.
CardinalAdjacent(a, b) ==
    /\ a \in DOMAIN grid /\ b \in DOMAIN grid
    /\ \/ a[1] = b[1] /\ (a[2] = b[2] + 1 \/ b[2] = a[2] + 1)
       \/ a[2] = b[2] /\ (a[1] = b[1] + 1 \/ b[1] = a[1] + 1)
    /\ grid[a] = grid[b]

\* a and b touch at a corner only and hold the same character.
DiagonalAdjacent(a, b) ==
    /\ a \in DOMAIN grid /\ b \in DOMAIN grid
    /\ (a[1] = b[1] + 1 \/ b[1] = a[1] + 1)
    /\ (a[2] = b[2] + 1 \/ b[2] = a[2] + 1)
    /\ grid[a] = grid[b]

RECURSIVE CardinalClosure(_)
\* The cells joined to a cell of S by a chain of cardinally adjacent cells
\* of one character.
CardinalClosure(S) ==
    LET T == S \cup { b \in DOMAIN grid : \E a \in S : CardinalAdjacent(a, b) }
    IN  IF T = S THEN S ELSE CardinalClosure(T)

\* How many of the calls ut.union(w, v) so far were on the cells a and b.
TimesUnioned(a, b) ==
    Cardinality({ k \in 1 .. Len(unions) :
                    { unions[k][1], unions[k][2] } = { a, b } })

\* C14: the regions get_components returns partition the grid: every cell
\* is in exactly one region, and two cells are in one region exactly if a
\* chain of cardinally adjacent cells of one character joins them, so
\* same-character cells that only touch diagonally are not merged by that;
\* and the queue loop calls union on every cardinal same-character
\* adjacency exactly once, and on nothing else.
C14_RegionsAreCardinalComponents ==
    (op = "gc") =>
        /\ \A k \in 1 .. Len(unions) :
             CardinalAdjacent(unions[k][1], unions[k][2])
        /\ \A k, l \in 1 .. Len(unions) :
             { unions[k][1], unions[k][2] } = { unions[l][1], unions[l][2] }
                 => k = l
        /\ (pc = "done") =>
             /\ \A a \in DOMAIN grid :
                  Cardinality({ R \in ret.regions : a \in R }) = 1
             /\ UNION ret.regions = DOMAIN grid
             /\ \A R \in ret.regions :
                  \A a \in R : R = CardinalClosure({ a })
             /\ \A a, b \in DOMAIN grid :
                  CardinalAdjacent(a, b) =>
                      \E k \in 1 .. Len(unions) :
                          { unions[k][1], unions[k][2] } = { a, b }

\* A finished call on a grid where two cells of one character touch at a
\* corner, are recorded as neighbours of each other, lie in different
\* regions, and one of them was unioned with a cardinal neighbour.
C14_Witness ==
    /\ op = "gc" /\ pc = "done"
    /\ \E a, b \in DOMAIN grid :
         /\ DiagonalAdjacent(a, b)
         /\ \E k \in { 1, 3, 5, 7 } : ret.nbrs[a].nbrs[k] = Some(b)
         /\ \A R \in ret.regions : ~(a \in R /\ b \in R)
         /\ \E c \in DOMAIN grid : TimesUnioned(a, c) = 1

==========================================================================
